---- MODULE Spec2Model ----
(***************************************************************************)
(* A model of the personal colour role reconciler of main.py: the naming   *)
(* scheme (uid_hash6, new_personal_name, pretty_role_name), the locator    *)
(* (find_personal_role), the guard (ensure_manageable, is_protected), the  *)
(* four role operations and the POST /apply handler, run as interleaved    *)
(* asyncio tasks against one guild.                                        *)
(*                                                                         *)
(* Strings are sequences of one-character strings.  A user id is the       *)
(* sequence of its decimal digits (Discord ids do not fit a 32 bit         *)
(* integer).  Every await that reaches Discord is a step boundary: the     *)
(* code between two awaits runs atomically on the event loop.              *)
(***************************************************************************)
EXTENDS Integers, Sequences, FiniteSets, TLC

(***************************************************************************)
(* Characters and strings                                                  *)
(***************************************************************************)
DecChars == {"0", "1", "2", "3", "4", "5", "6", "7", "8", "9"}
LowerHexLetters == {"a", "b", "c", "d", "e", "f"}
UpperHexLetters == {"A", "B", "C", "D", "E", "F"}
HexChars == DecChars \cup LowerHexLetters \cup UpperHexLetters
\* the characters str.strip() takes for whitespace, among the ASCII
\* characters: space, tab, line feed, carriage return, form feed, vertical
\* tab (U+000B) and the four separators U+001C to U+001F.  The whitespace
\* outside ASCII (U+0085, U+00A0, U+1680, U+2000 to U+200A, U+2028, U+2029,
\* U+202F, U+205F, U+3000) cannot be written in a module; the strings of
\* the model hold ASCII characters only.
WhiteChars ==
    {" ", "\t", "\n", "\r", "\f", "", "", "", "", ""}

\* the ASCII characters int() skips at both ends of its argument: those of
\* str.strip() but the four separators
IntWhiteChars == {" ", "\t", "\n", "\r", "\f", ""}

\* str() of one decimal digit
DigitChar(d) ==
    CASE d = 0 -> "0" [] d = 1 -> "1" [] d = 2 -> "2" [] d = 3 -> "3"
      [] d = 4 -> "4" [] d = 5 -> "5" [] d = 6 -> "6" [] d = 7 -> "7"
      [] d = 8 -> "8" [] d = 9 -> "9"

\* str(member.id): the decimal representation of a user id
Str(uid) == [i \in 1..Len(uid) |-> DigitChar(uid[i])]

\* the value of one hexadecimal digit, as int(s, 16) reads it
HexVal(c) ==
    CASE c = "0" -> 0 [] c = "1" -> 1 [] c = "2" -> 2 [] c = "3" -> 3
      [] c = "4" -> 4 [] c = "5" -> 5 [] c = "6" -> 6 [] c = "7" -> 7
      [] c = "8" -> 8 [] c = "9" -> 9
      [] c \in {"a", "A"} -> 10 [] c \in {"b", "B"} -> 11
      [] c \in {"c", "C"} -> 12 [] c \in {"d", "D"} -> 13
      [] c \in {"e", "E"} -> 14 [] c \in {"f", "F"} -> 15

\* str.endswith
EndsWith(s, suf) ==
    /\ Len(s) >= Len(suf)
    /\ SubSeq(s, Len(s) - Len(suf) + 1, Len(s)) = suf

\* str.startswith
StartsWith(s, pre) ==
    /\ Len(s) >= Len(pre)
    /\ SubSeq(s, 1, Len(pre)) = pre

\* s[:n]
Take(s, n) == SubSeq(s, 1, IF n < Len(s) THEN n ELSE Len(s))

\* s[n:]
Drop(s, n) == SubSeq(s, n + 1, Len(s))

RECURSIVE LStripSet(_, _)
\* str.lstrip(chars)
LStripSet(s, cs) ==
    IF s # <<>> /\ Head(s) \in cs THEN LStripSet(Tail(s), cs) ELSE s

RECURSIVE RStripSet(_, _)
\* str.rstrip(chars)
RStripSet(s, cs) ==
    IF s # <<>> /\ s[Len(s)] \in cs THEN RStripSet(SubSeq(s, 1, Len(s) - 1), cs)
    ELSE s

\* str.strip()
Strip(s) == RStripSet(LStripSet(s, WhiteChars), WhiteChars)

AllIn(s, cs) == \A i \in 1..Len(s) : s[i] \in cs

(***************************************************************************)
(* Configuration (environment variables of the process)                    *)
(***************************************************************************)
\* WEB_SECRET: the default of the code
WEB_SECRET == "change-me"

\* the user ids of the model, as decimal digit sequences
U42 == <<4, 2>>
ULong == <<1, 2, 3, 4, 5, 6, 7, 8, 9, 0, 1, 2, 3, 4, 5>>
U7 == <<7>>

\* the guild the bot is in
GUILD == <<1>>
OTHER_GUILD == <<9>>

\* the members of the guild (U7 is a user who left it)
Members == {U42, ULong}

\* sha1(f"{uid}:{WEB_SECRET}").hexdigest()[:6], tabulated for the user ids
\* of the model under WEB_SECRET = "change-me"
uid_hash6(uid) ==
    CASE uid = U42 -> <<"f", "3", "f", "9", "b", "c">>
      [] uid = ULong -> <<"3", "b", "5", "4", "0", "9">>
      [] uid = U7 -> <<"2", "d", "5", "6", "e", "8">>

(***************************************************************************)
(* int(s, 16)                                                              *)
(***************************************************************************)
RECURSIVE HexValue(_)
\* the value of a run of hexadecimal digits, underscores skipped
HexValue(s) ==
    IF s = <<>> THEN 0
    ELSE IF s[Len(s)] = "_" THEN HexValue(SubSeq(s, 1, Len(s) - 1))
    ELSE HexValue(SubSeq(s, 1, Len(s) - 1)) * 16 + HexVal(s[Len(s)])

\* the digits part int() accepts: hexadecimal digits, single underscores
\* between them
ValidDigits(b) ==
    /\ b # <<>>
    /\ AllIn(b, HexChars \cup {"_"})
    /\ b[1] # "_"
    /\ b[Len(b)] # "_"
    /\ \A i \in 1..(Len(b) - 1) : ~(b[i] = "_" /\ b[i + 1] = "_")

\* int(s, 16): surrounding whitespace, an optional sign, an optional 0x
\* prefix (one underscore may follow it), then the digits.  ok = FALSE is
\* ValueError.
ParseInt16(s) ==
    LET t == RStripSet(LStripSet(s, IntWhiteChars), IntWhiteChars)
        neg == t # <<>> /\ Head(t) = "-"
        u == IF t # <<>> /\ Head(t) \in {"-", "+"} THEN Tail(t) ELSE t
        pre == StartsWith(u, <<"0", "x">>) \/ StartsWith(u, <<"0", "X">>)
        v == IF pre THEN Drop(u, 2) ELSE u
        b == IF pre /\ v # <<>> /\ Head(v) = "_" THEN Tail(v) ELSE v
    IN  IF ValidDigits(b)
        THEN [ok |-> TRUE, val |-> IF neg THEN 0 - HexValue(b) ELSE HexValue(b)]
        ELSE [ok |-> FALSE, val |-> 0]

(***************************************************************************)
(* Naming scheme                                                           *)
(***************************************************************************)
\* the role name limit of Discord that new_personal_name trims to
ROLE_NAME_MAX == 100
\* ID_SUFFIX_PATTERN: -[0-9]{15,25}$
ID_MIN_DIGITS == 15
ID_MAX_DIGITS == 25
\* HASH_SUFFIX_PATTERN: -[0-9a-f]{6}$, re.I
HASH_DIGITS == 6

\* the positions where the "$" of a pattern matches: the end of the name
\* and, in a name that a line feed ends, the place before that line feed
DollarEnds(name) ==
    {Len(name)} \cup
    (IF name # <<>> /\ name[Len(name)] = "\n" THEN {Len(name) - 1} ELSE {})

\* "-", then lo to hi characters of cs, then "$", matched from index i on
SuffixMatchAt(name, i, lo, hi, cs) ==
    /\ name[i] = "-"
    /\ \E e \in DollarEnds(name) :
        /\ e - i \in lo..hi
        /\ AllIn(SubSeq(name, i + 1, e), cs)

\* ID_SUFFIX_PATTERN.search(name) finds a match
ID_SUFFIX_PATTERN(name) ==
    \E i \in 1..Len(name) :
        SuffixMatchAt(name, i, ID_MIN_DIGITS, ID_MAX_DIGITS, DecChars)

\* HASH_SUFFIX_PATTERN.search(name) finds a match ([0-9a-f] under re.I)
HASH_SUFFIX_PATTERN(name) ==
    \E i \in 1..Len(name) :
        SuffixMatchAt(name, i, HASH_DIGITS, HASH_DIGITS, HexChars)

\* the index of the "-" where ID_SUFFIX_PATTERN.search(name) matches: the
\* leftmost index a match starts at
IdSuffixStart(name) ==
    CHOOSE i \in 1..Len(name) :
        /\ SuffixMatchAt(name, i, ID_MIN_DIGITS, ID_MAX_DIGITS, DecChars)
        /\ \A j \in 1..(i - 1) :
            ~SuffixMatchAt(name, j, ID_MIN_DIGITS, ID_MAX_DIGITS, DecChars)

\* the same for HASH_SUFFIX_PATTERN
HashSuffixStart(name) ==
    CHOOSE i \in 1..Len(name) :
        /\ SuffixMatchAt(name, i, HASH_DIGITS, HASH_DIGITS, HexChars)
        /\ \A j \in 1..(i - 1) :
            ~SuffixMatchAt(name, j, HASH_DIGITS, HASH_DIGITS, HexChars)

\* the index of the last character of a match: the characters matched hold
\* no line feed, so a match ends before the line feed that ends the name
\* and at the end of any other name
SuffixEnd(name) ==
    IF name[Len(name)] = "\n" THEN Len(name) - 1 ELSE Len(name)

\* pattern.sub("", name) for a match that starts at index i: the match is
\* taken out, a final line feed stays
SubSuffix(name, i) ==
    SubSeq(name, 1, i - 1) \o SubSeq(name, SuffixEnd(name) + 1, Len(name))

pretty_role_name(name) ==
    IF ID_SUFFIX_PATTERN(name) THEN SubSuffix(name, IdSuffixStart(name))
    ELSE IF HASH_SUFFIX_PATTERN(name) THEN SubSuffix(name, HashSuffixStart(name))
    ELSE name

\* a slip: the base is not cut to the room the suffix leaves
new_personal_name_uncut(base, uid) == Strip(base) \o <<"-">> \o uid_hash6(uid)

\* a slip: the trimmed base is returned without the suffix
new_personal_name_unlinked(base, uid) ==
    LET b == Strip(base)
        max_base == ROLE_NAME_MAX - HASH_DIGITS - 1
    IN  IF Len(b) > max_base THEN Take(b, max_base) ELSE b

new_personal_name(base, uid) ==
    LET suffix == <<"-">> \o uid_hash6(uid)
        b == Strip(base)
        max_base == ROLE_NAME_MAX - Len(suffix)
    IN  (IF Len(b) > max_base THEN Take(b, max_base) ELSE b) \o suffix

(***************************************************************************)
(* State                                                                   *)
(***************************************************************************)
VARIABLES
    roles,        \* guild.roles: role id -> its fields
    memberRoles,  \* member.roles: user id -> the ids of the roles attached
    topPos,       \* guild.me.top_role.position
    topId,        \* guild.me.top_role.id
    manageRoles,  \* guild.me.guild_permissions.manage_roles
    nextId,       \* the id Discord gives the next role it creates
    calls         \* the handler invocations so far, running and finished

vars == <<roles, memberRoles, topPos, topId, manageRoles, nextId, calls>>

\* how many handler invocations a run holds
MaxCalls == 2

\* PROTECTED_ROLE_IDS and PROTECTED_ROLE_NAMES of the deployment modelled
PROTECTED_ROLE_IDS == {1}
PROTECTED_ROLE_NAMES == {<<"S", "t", "a", "f", "f", "-", "4", "2">>}

\* Role ids give the order in which the roles were made: a role made later
\* has a higher id.  The ids of the roles of the variable roles count up
\* from 1; the roles the bot can have for its top role are not among them:
\*   EVERYONE_ID  @everyone, made with the guild, before every other role
\*   BOT_ROLE_ID  the role the bot was given when it joined, before the
\*                roles of the model were made
\*   LATE_ROLE_ID a role made after the roles of the model and given to
\*                the bot
EVERYONE_ID == 0 - 1
BOT_ROLE_ID == 0
LATE_ROLE_ID == 1000

\* guild.me.top_role as <<position, id>>: at position 0 when the bot holds
\* no role but @everyone, or at position 3, above the roles Discord creates
\* and level with role 5
BotTops == {<<0, EVERYONE_ID>>, <<3, BOT_ROLE_ID>>, <<3, LATE_ROLE_ID>>}
\* the same for a bot that is given no role but the one it joined with
JoinTops == {<<0, EVERYONE_ID>>, <<3, BOT_ROLE_ID>>}
\* Discord creates a role at the bottom of the hierarchy
NewRolePos == 1

Role(name, colour, pos) ==
    [name |-> name, colour |-> colour, pos |-> pos, perms |-> {},
     hoist |-> FALSE, mentionable |-> FALSE]

\* roles a guild may hold before the bot first acts:
\*   1  "VIP-f3f9bc"           current scheme, user 42, protected by id
\*   2  "Old-123456789012345"  legacy scheme, user 123456789012345
\*   3  "staff-42"             legacy scheme, user 42; the protected name
\*                             "Staff-42" in another letter case
\*   4  "Staff-42"             legacy scheme, user 42, protected by name
\*   5  "Top-f3f9bc"           current scheme, user 42, above the bot
\*   6  "-123456789012345"     legacy scheme, user 123456789012345, with
\*                             nothing before the suffix
\*   7  "Old -123456789012345" legacy scheme, user 123456789012345, with a
\*                             blank before the suffix
PresetRole(id) ==
    CASE id = 1 -> Role(<<"V", "I", "P", "-", "f", "3", "f", "9", "b", "c">>, 0, 1)
      [] id = 2 -> Role(<<"O", "l", "d", "-">> \o Str(ULong), 0, 1)
      [] id = 3 -> Role(<<"s", "t", "a", "f", "f", "-", "4", "2">>, 0, 1)
      [] id = 4 -> Role(<<"S", "t", "a", "f", "f", "-", "4", "2">>, 0, 1)
      [] id = 5 -> Role(<<"T", "o", "p", "-", "f", "3", "f", "9", "b", "c">>, 0, 3)
      [] id = 6 -> Role(<<"-">> \o Str(ULong), 0, 1)
      [] id = 7 -> Role(<<"O", "l", "d", " ", "-">> \o Str(ULong), 0, 1)
PresetOwner(id) == IF id \in {2, 6, 7} THEN ULong ELSE U42
\* Discord gives a new role an id above those of the roles that exist
PresetIds == 1..7
FirstNewId == Cardinality(PresetIds) + 1

\* the guilds a run starts from: at most one role per user
InitDirs == {{}, {1}, {2}, {3}, {4}, {5}, {1, 2}}

NameColor == <<"N", "a", "m", "e", "C", "o", "l", "o", "r">>

(***************************************************************************)
(* Token codec (itsdangerous URLSafeSerializer)                            *)
(***************************************************************************)
\* signer.dumps(payload): the payload with a MAC keyed by the secret
Sign(payload, secret) == [payload |-> payload, mac |-> <<secret, payload>>]
\* a string that is no token at all
Garbage == [payload |-> [g |-> <<>>, u |-> <<>>], mac |-> <<"garbage">>]
\* a slip: the payload is decoded without comparing the MAC
LoadsUnverified(tok) == tok.mac # <<"garbage">>

\* signer.loads(token) does not raise BadSignature
LoadsOk(tok) == tok.mac = <<WEB_SECRET, tok.payload>>

(***************************************************************************)
(* Guard and locator                                                       *)
(***************************************************************************)
is_protected(r) ==
    r \in PROTECTED_ROLE_IDS \/ roles[r].name \in PROTECTED_ROLE_NAMES

\* Role.__lt__(role, me.top_role): the role is below the bot's top role,
\* by position and, at equal positions, by being the later made of the two
\* (no role of the variable roles is @everyone, which is below every role)
RoleLtTop(r) ==
    \/ roles[r].pos < topPos
    \/ roles[r].pos = topPos /\ r > topId

\* a slip: the positions are compared, with > for >=
RoleGtTop(r) == roles[r].pos > topPos

\* role >= me.top_role: Role.__ge__ is the negation of Role.__lt__
RoleGeTop(r) == ~RoleLtTop(r)

\* a slip: the protection list is not consulted
ensure_manageable_unprotected(r) ==
    IF ~manageRoles THEN "NoManageRoles"
    ELSE IF RoleGeTop(r) THEN "Hierarchy"
    ELSE "ok"

\* "ok", or the check that raised
ensure_manageable(r) ==
    IF ~manageRoles THEN "NoManageRoles"
    ELSE IF RoleGeTop(r) THEN "Hierarchy"
    ELSE IF is_protected(r) THEN "Protected"
    ELSE "ok"

\* a slip: any name of the hash suffix shape passes for the user's
NameMatches_anyhash(n, uid) ==
    \/ HASH_SUFFIX_PATTERN(n)
    \/ EndsWith(n, <<"-">> \o Str(uid))

\* the test of both loops of find_personal_role
NameMatches(n, uid) ==
    \/ EndsWith(n, <<"-">> \o uid_hash6(uid))
    \/ EndsWith(n, <<"-">> \o Str(uid))

\* Role.__lt__: the order of member.roles and guild.roles
RoleLt(a, b) ==
    \/ roles[a].pos < roles[b].pos
    \/ roles[a].pos = roles[b].pos /\ a > b

\* the first role of S in list order
FirstOf(S) == CHOOSE r \in S : \A q \in S \ {r} : RoleLt(r, q)

\* a slip: only the roles the member holds are scanned
find_personal_role_attached(uid) ==
    LET mine == {r \in memberRoles[uid] : NameMatches(roles[r].name, uid)}
    IN  IF mine # {} THEN FirstOf(mine) ELSE 0

\* None is 0
find_personal_role(uid) ==
    LET mine == {r \in memberRoles[uid] : NameMatches(roles[r].name, uid)}
        all == {r \in DOMAIN roles : NameMatches(roles[r].name, uid)}
    IN  IF mine # {} THEN FirstOf(mine)
        ELSE IF all # {} THEN FirstOf(all)
        ELSE 0

(***************************************************************************)
(* Handler invocations                                                     *)
(***************************************************************************)
\* the token field of a slash command, which carries none
NoToken == [payload |-> [g |-> <<>>, u |-> <<>>], mac |-> <<"none">>]

\* the requests a handler sends to Discord
\* a slip: the role is created hoisted
CreateReqHoisted(name, colour) ==
    [kind |-> "create", role |-> 0, name |-> name, colour |-> colour,
     perms |-> {}, hoist |-> TRUE, mentionable |-> FALSE]

CreateReq(name, colour) ==
    [kind |-> "create", role |-> 0, name |-> name, colour |-> colour,
     perms |-> {}, hoist |-> FALSE, mentionable |-> FALSE]
EditColourReq(r, colour) ==
    [kind |-> "edit_colour", role |-> r, name |-> <<>>, colour |-> colour,
     perms |-> {}, hoist |-> FALSE, mentionable |-> FALSE]
EditNameReq(r, name) ==
    [kind |-> "edit_name", role |-> r, name |-> name, colour |-> 0,
     perms |-> {}, hoist |-> FALSE, mentionable |-> FALSE]
AttachReq(r) ==
    [kind |-> "attach", role |-> r, name |-> <<>>, colour |-> 0,
     perms |-> {}, hoist |-> FALSE, mentionable |-> FALSE]

\* the calls finished so far
Finished == {i \in 1..Len(calls) : calls[i].pc = "done"}

\* the roles of the guild whose name links them to the user
MatchingRoles(uid) == {r \in DOMAIN roles : NameMatches(roles[r].name, uid)}

\* a handler invocation as it starts: pc is the await it is suspended at,
\* found the result of find_personal_role, guard the result of
\* ensure_manageable ("none" while it has not run) with the position, the
\* bot's top role (position and id) and the name it read, role the local
\* variable role,
\* issued the requests sent, err the exception raised ("" for none).
\* present (did the guild hold a role of the user when the call began) and
\* prior (the calls finished before this one began) are history only.
NewCall(op, uid, tok, arg) ==
    [op |-> op, uid |-> uid, tok |-> tok, arg |-> arg, pc |-> "done",
     present |-> (uid \in Members /\ MatchingRoles(uid) # {}),
     found |-> 0, guard |-> "none", guardPos |-> 0, guardTop |-> 0,
     guardTopId |-> 0,
     guardName |-> <<>>, role |-> 0, issued |-> <<>>,
     err |-> "", ok |-> FALSE, status |-> 0, msg |-> "", ret |-> 0,
     prior |-> Finished]

\* a slip: the generic except clause stands before the specific ones
Respond_generic_first(c) ==
    IF c.op = "apply"
    THEN [c EXCEPT
            !.ok = (c.err = ""),
            !.status = CASE c.err = "" -> 200
                         [] c.err = "GuildNotFound" -> 404
                         [] OTHER -> 500,
            !.msg = CASE c.err = "" -> "applied"
                      [] c.err = "GuildNotFound" -> "guild not found"
                      [] OTHER -> "apply error"]
    ELSE [c EXCEPT
            !.ok = (c.err = ""),
            !.msg = IF c.err # "" THEN "failed"
                    ELSE IF c.ret = 0 THEN "no role" ELSE "done"]

\* the response of POST /apply (lines 230, 236-248) and the follow-up
\* message of a slash command
Respond(c) ==
    IF c.op = "apply"
    THEN [c EXCEPT
            !.ok = (c.err = ""),
            !.status = CASE c.err = "" -> 200
                         [] c.err = "BadSignature" -> 400
                         [] c.err = "ValueError" -> 400
                         [] c.err = "GuildNotFound" -> 404
                         [] OTHER -> 500,
            !.msg = CASE c.err = "" -> "applied"
                      [] c.err = "BadSignature" -> "invalid token"
                      [] c.err = "ValueError" -> "invalid hex"
                      [] c.err = "GuildNotFound" -> "guild not found"
                      [] OTHER -> "apply error"]
    ELSE [c EXCEPT
            !.ok = (c.err = ""),
            !.msg = IF c.err # "" THEN "failed"
                    ELSE IF c.ret = 0 THEN "no role" ELSE "done"]

Raise(c, e) == Respond([c EXCEPT !.pc = "done", !.err = e])
Return(c, r) == Respond([c EXCEPT !.pc = "done", !.ret = r])

\* the call with the guard's verdict on role r recorded
Guarded(c, r) ==
    [c EXCEPT !.found = r, !.role = r, !.guard = ensure_manageable(r),
              !.guardPos = roles[r].pos, !.guardTop = topPos,
              !.guardTopId = topId,
              !.guardName = roles[r].name]

\* create_or_update_personal_role up to its first await
create_or_update_personal_role(c, uid, rgb) ==
    IF ~manageRoles THEN Raise(c, "NoManageRoles")
    ELSE LET role == find_personal_role(uid) IN
         IF role = 0
         THEN [c EXCEPT !.pc = "create",
                        !.issued = <<CreateReq(new_personal_name(NameColor, uid), rgb)>>]
         ELSE LET g == Guarded(c, role) IN
              IF g.guard # "ok" THEN Raise(g, g.guard)
              ELSE [g EXCEPT !.pc = "edit",
                             !.issued = <<EditColourReq(role, rgb)>>]

\* a slip: the colour-only command creates the role when there is none
update_only_color_creating(c, uid, rgb) ==
    LET role == find_personal_role(uid) IN
    IF role = 0
    THEN [c EXCEPT !.pc = "create",
                   !.issued = <<CreateReq(new_personal_name(NameColor, uid), rgb)>>]
    ELSE LET g == Guarded(c, role) IN
         IF g.guard # "ok" THEN Raise(g, g.guard)
         ELSE [g EXCEPT !.pc = "edit", !.issued = <<EditColourReq(role, rgb)>>]

\* update_only_color up to its await
update_only_color(c, uid, rgb) ==
    LET role == find_personal_role(uid) IN
    IF role = 0 THEN Raise(c, "RoleNotFound")
    ELSE LET g == Guarded(c, role) IN
         IF g.guard # "ok" THEN Raise(g, g.guard)
         ELSE [g EXCEPT !.pc = "edit", !.issued = <<EditColourReq(role, rgb)>>]

\* a slip: the name is written as the member typed it
rename_personal_role_raw(c, uid, new_base_name) ==
    LET role == find_personal_role(uid) IN
    IF role = 0 THEN Raise(c, "RoleNotFound")
    ELSE LET g == Guarded(c, role) IN
         IF g.guard # "ok" THEN Raise(g, g.guard)
         ELSE [g EXCEPT !.pc = "edit",
                        !.issued = <<EditNameReq(role, Strip(new_base_name))>>]

\* rename_personal_role up to its await
rename_personal_role(c, uid, new_base_name) ==
    LET role == find_personal_role(uid) IN
    IF role = 0 THEN Raise(c, "RoleNotFound")
    ELSE LET g == Guarded(c, role) IN
         IF g.guard # "ok" THEN Raise(g, g.guard)
         ELSE [g EXCEPT !.pc = "edit",
                        !.issued = <<EditNameReq(role, new_personal_name(new_base_name, uid))>>]

\* a slip: the old suffix is left in the base of the new name
migrate_personal_role_name_keeps_suffix(c, uid) ==
    LET role == find_personal_role(uid) IN
    IF role = 0 THEN Return(c, 0)
    ELSE IF EndsWith(roles[role].name, <<"-">> \o Str(uid))
    THEN LET new_name == new_personal_name(roles[role].name, uid)
             g == Guarded(c, role)
         IN  IF g.guard # "ok" THEN Raise(g, g.guard)
             ELSE [g EXCEPT !.pc = "edit", !.issued = <<EditNameReq(role, new_name)>>]
    ELSE Return([c EXCEPT !.found = role, !.role = role], role)

\* migrate_personal_role_name up to its await
migrate_personal_role_name(c, uid) ==
    LET role == find_personal_role(uid) IN
    IF role = 0 THEN Return(c, 0)
    ELSE IF EndsWith(roles[role].name, <<"-">> \o Str(uid))
    THEN LET vis == pretty_role_name(roles[role].name)
             new_name == new_personal_name(IF vis # <<>> THEN vis ELSE NameColor, uid)
             g == Guarded(c, role)
         IN  IF g.guard # "ok" THEN Raise(g, g.guard)
             ELSE [g EXCEPT !.pc = "edit", !.issued = <<EditNameReq(role, new_name)>>]
    ELSE Return([c EXCEPT !.found = role, !.role = role], role)

\* POST /apply, lines 219-235, up to the first await that changes the guild
apply(tok, hexraw) ==
    LET hexv == Strip(LStripSet(hexraw, {"#"}))
    IN  IF ~LoadsOk(tok) THEN Raise(NewCall("apply", <<>>, tok, hexraw), "BadSignature")
        ELSE LET gid == tok.payload.g
                 uid == tok.payload.u
                 c == NewCall("apply", uid, tok, hexraw)
                 rgb == ParseInt16(hexv)
             IN  IF gid # GUILD THEN Raise(c, "GuildNotFound")
                 ELSE IF uid \notin Members THEN Raise(c, "MemberNotFound")
                 ELSE IF ~rgb.ok THEN Raise(c, "ValueError")
                 ELSE create_or_update_personal_role(c, uid, rgb.val)

\* /color_set
color_set_cmd(uid, hexraw) ==
    LET c == NewCall("set", uid, NoToken, hexraw)
        rgb == ParseInt16(LStripSet(hexraw, {"#"}))
    IN  IF ~rgb.ok THEN Raise(c, "ValueError")
        ELSE update_only_color(c, uid, rgb.val)

\* a slip: only the id pattern is tested
color_rename_cmd_idonly(uid, name) ==
    LET c == NewCall("rename", uid, NoToken, name) IN
    IF ID_SUFFIX_PATTERN(name) THEN Raise(c, "Format")
    ELSE rename_personal_role(c, uid, name)

\* /color_rename
color_rename_cmd(uid, name) ==
    LET c == NewCall("rename", uid, NoToken, name) IN
    IF ID_SUFFIX_PATTERN(name) \/ HASH_SUFFIX_PATTERN(name) THEN Raise(c, "Format")
    ELSE rename_personal_role(c, uid, name)

\* /color_fixname
color_fixname_cmd(uid) ==
    migrate_personal_role_name(NewCall("migrate", uid, NoToken, <<>>), uid)

(***************************************************************************)
(* Actions                                                                 *)
(***************************************************************************)
Last(q) == q[Len(q)]

Dir == <<roles, memberRoles, topPos, topId, manageRoles, nextId>>

\* a POST /apply request arrives and runs to its first await on the guild
ApplyBegin(tok, hexraw) ==
    /\ Len(calls) < MaxCalls
    /\ calls' = Append(calls, apply(tok, hexraw))
    /\ UNCHANGED Dir

\* /color_set is invoked by a member
SetBegin(uid, hexraw) ==
    /\ Len(calls) < MaxCalls
    /\ calls' = Append(calls, color_set_cmd(uid, hexraw))
    /\ UNCHANGED Dir

\* /color_rename is invoked by a member
RenameBegin(uid, name) ==
    /\ Len(calls) < MaxCalls
    /\ calls' = Append(calls, color_rename_cmd(uid, name))
    /\ UNCHANGED Dir

\* /color_fixname is invoked by a member
MigrateBegin(uid) ==
    /\ Len(calls) < MaxCalls
    /\ calls' = Append(calls, color_fixname_cmd(uid))
    /\ UNCHANGED Dir

\* no handler is suspended at an await
Idle == \A i \in 1..Len(calls) : calls[i].pc = "done"

\* how many handler invocations a run of requests made one after another
\* holds
MaxSeq == 3

\* the same four requests, each arriving when the one before has been
\* answered
ApplyAfter(tok, hexraw) ==
    /\ Idle
    /\ Len(calls) < MaxSeq
    /\ calls' = Append(calls, apply(tok, hexraw))
    /\ UNCHANGED Dir

SetAfter(uid, hexraw) ==
    /\ Idle
    /\ Len(calls) < MaxSeq
    /\ calls' = Append(calls, color_set_cmd(uid, hexraw))
    /\ UNCHANGED Dir

RenameAfter(uid, name) ==
    /\ Idle
    /\ Len(calls) < MaxSeq
    /\ calls' = Append(calls, color_rename_cmd(uid, name))
    /\ UNCHANGED Dir

MigrateAfter(uid) ==
    /\ Idle
    /\ Len(calls) < MaxSeq
    /\ calls' = Append(calls, color_fixname_cmd(uid))
    /\ UNCHANGED Dir

\* guild.create_role returns (line 137); the handler goes on to line 150:
\* the new role is not among member.roles, so add_roles is awaited
CreateDone(i) ==
    LET c == calls[i]
        req == Last(c.issued)
        new == [name |-> req.name, colour |-> req.colour, pos |-> NewRolePos,
                perms |-> req.perms, hoist |-> req.hoist,
                mentionable |-> req.mentionable]
    IN  /\ c.pc = "create"
        /\ roles' = [r \in DOMAIN roles \cup {nextId} |->
                        IF r = nextId THEN new ELSE roles[r]]
        /\ nextId' = nextId + 1
        /\ calls' = [calls EXCEPT ![i] =
                [c EXCEPT !.role = nextId, !.pc = "attach",
                          !.issued = Append(c.issued, AttachReq(nextId))]]
        /\ UNCHANGED <<memberRoles, topPos, topId, manageRoles>>

\* role.edit returns (lines 147, 163, 177, 193); POST /apply goes on to
\* line 150, the slash commands return the role
EditDone(i) ==
    LET c == calls[i]
        req == Last(c.issued)
    IN  /\ c.pc = "edit"
        /\ roles' = [roles EXCEPT ![req.role] =
                IF req.kind = "edit_colour"
                THEN [@ EXCEPT !.colour = req.colour]
                ELSE [@ EXCEPT !.name = req.name]]
        /\ calls' = [calls EXCEPT ![i] =
                IF c.op = "apply" /\ c.role \notin memberRoles[c.uid]
                THEN [c EXCEPT !.pc = "attach",
                               !.issued = Append(c.issued, AttachReq(c.role))]
                ELSE Return(c, c.role)]
        /\ UNCHANGED <<memberRoles, topPos, topId, manageRoles, nextId>>

\* member.add_roles returns (line 151) and the handler returns the role
AttachDone(i) ==
    LET c == calls[i] IN
    /\ c.pc = "attach"
    /\ memberRoles' = [memberRoles EXCEPT ![c.uid] = @ \cup {c.role}]
    /\ calls' = [calls EXCEPT ![i] = Return(c, c.role)]
    /\ UNCHANGED <<roles, topPos, topId, manageRoles, nextId>>

\* the awaited request fails at Discord (discord.HTTPException): the guild
\* is left as it is and the exception propagates out of the handler
RemoteFail(i) ==
    LET c == calls[i] IN
    /\ c.pc \in {"create", "edit", "attach"}
    /\ calls' = [calls EXCEPT ![i] = Raise(c, "RemoteFailure")]
    /\ UNCHANGED Dir

\* a guild admin gives the bot a role at position 3, or takes its roles
\* away
EnvMoveBot(t) ==
    /\ t # <<topPos, topId>>
    /\ topPos' = t[1]
    /\ topId' = t[2]
    /\ UNCHANGED <<roles, memberRoles, manageRoles, nextId, calls>>

(***************************************************************************)
(* Specifications                                                          *)
(***************************************************************************)
InitGuild(dirs, tops) ==
    /\ \E D \in dirs, att \in BOOLEAN :
        /\ roles = [r \in D |-> PresetRole(r)]
        /\ memberRoles = [u \in Members |->
                            IF att THEN {r \in D : PresetOwner(r) = u} ELSE {}]
    /\ \E t \in tops : topPos = t[1] /\ topId = t[2]
    /\ manageRoles \in BOOLEAN
    /\ nextId = FirstNewId
    /\ calls = <<>>

Token(uid) == Sign([g |-> GUILD, u |-> uid], WEB_SECRET)

\* the links the bot has handed out: to the two members and to a user who
\* has since left the guild
MemberTokens == {Token(u) : u \in Members}
IssuedTokens == {Token(u) : u \in Members \cup {U7}}

Hex1 == <<"1", "a", "2", "b", "3", "c">>
Cool == <<"C", "o", "o", "l">>

\* the four operations of both members, interleaved, while a guild admin
\* moves the bot's role
Init == InitGuild(InitDirs, JoinTops)

Next ==
    \/ \E tok \in IssuedTokens : ApplyBegin(tok, Hex1)
    \/ \E u \in Members : SetBegin(u, Hex1)
    \/ \E u \in Members : RenameBegin(u, Cool)
    \/ \E u \in Members : MigrateBegin(u)
    \/ \E i \in 1..Len(calls) : CreateDone(i)
    \/ \E i \in 1..Len(calls) : EditDone(i)
    \/ \E i \in 1..Len(calls) : AttachDone(i)
    \/ \E i \in 1..Len(calls) : RemoteFail(i)
    \/ \E t \in JoinTops : EnvMoveBot(t)

Spec == Init /\ [][Next]_vars

\* POST /apply alone, over well and ill formed tokens and hex values
Hex1Sharp == <<"#", "1", "A", "2", "B", "3", "C">>
Hex12 == <<"1", "2">>
HexZZ == <<"z", "z">>
\* 1a2b3c with a line feed after it
Hex1LF == Hex1 \o <<"\n">>
HttpHex == {Hex1, Hex1Sharp, Hex1LF, Hex12, HexZZ, <<>>}

HttpTokens ==
    {Token(U42),
     Sign([g |-> GUILD, u |-> U42], "guessed"),
     [payload |-> [g |-> GUILD, u |-> U42], mac |-> Token(ULong).mac],
     Garbage,
     Sign([g |-> OTHER_GUILD, u |-> U42], WEB_SECRET),
     Sign([g |-> GUILD, u |-> U7], WEB_SECRET)}

InitHttp == InitGuild({{}, {1}, {3}}, JoinTops)

NextHttp ==
    \/ \E tok \in HttpTokens, hex \in HttpHex : ApplyBegin(tok, hex)
    \/ \E i \in 1..Len(calls) : CreateDone(i)
    \/ \E i \in 1..Len(calls) : EditDone(i)
    \/ \E i \in 1..Len(calls) : AttachDone(i)
    \/ \E i \in 1..Len(calls) : RemoteFail(i)

SpecHttp == InitHttp /\ [][NextHttp]_vars

\* /color_rename over base names with and without a suffix shape, with
\* and without whitespace around them
RenameBases ==
    {Cool,
     <<"\t">> \o Cool,
     Cool \o <<"-", "a", "1", "b", "2", "c", "3", "\n">>,
     Cool \o <<"-", "a", "1", "b", "2", "c", "3">>,
     Cool \o <<"-", "A", "1", "B", "2", "C", "3">>,
     Cool \o <<"-", "f", "3", "f", "9", "b", "c">>,
     Cool \o <<"-", "4", "2">>,
     Cool \o <<"-">> \o Str(ULong),
     Cool \o <<"-">> \o Tail(Str(ULong))}

InitRename == InitGuild({{}, {2}, {3}}, JoinTops)

NextRename ==
    \/ \E tok \in MemberTokens : ApplyBegin(tok, Hex1)
    \/ \E u \in Members, b \in RenameBases : RenameBegin(u, b)
    \/ \E i \in 1..Len(calls) : CreateDone(i)
    \/ \E i \in 1..Len(calls) : EditDone(i)
    \/ \E i \in 1..Len(calls) : AttachDone(i)
    \/ \E i \in 1..Len(calls) : RemoteFail(i)

SpecRename == InitRename /\ [][NextRename]_vars

\* the four operations on guilds that hold several roles of one user, of
\* which the member holds any part
FindDirs == {{2}, {6}, {7}, {3, 5}}

InitFind ==
    /\ \E D \in FindDirs : \E A \in SUBSET D :
        /\ roles = [r \in D |-> PresetRole(r)]
        /\ memberRoles = [u \in Members |-> {r \in A : PresetOwner(r) = u}]
    /\ \E t \in JoinTops : topPos = t[1] /\ topId = t[2]
    /\ manageRoles \in BOOLEAN
    /\ nextId = FirstNewId
    /\ calls = <<>>

NextFind ==
    \/ \E tok \in MemberTokens : ApplyBegin(tok, Hex1)
    \/ \E u \in Members : SetBegin(u, Hex1)
    \/ \E u \in Members : RenameBegin(u, Cool)
    \/ \E u \in Members : MigrateBegin(u)
    \/ \E i \in 1..Len(calls) : CreateDone(i)
    \/ \E i \in 1..Len(calls) : EditDone(i)
    \/ \E i \in 1..Len(calls) : AttachDone(i)
    \/ \E i \in 1..Len(calls) : RemoteFail(i)

SpecFind == InitFind /\ [][NextFind]_vars

\* the four operations made one after another, with a base name that fits
\* the room the suffix leaves and one that exceeds it
LongBase == [i \in 1..(ROLE_NAME_MAX + 1) |-> "x"]
SeqBases == {Cool, LongBase}

InitSeq == InitGuild({{}, {2}}, JoinTops)

NextSeq ==
    \/ \E tok \in MemberTokens : ApplyAfter(tok, Hex1)
    \/ \E u \in Members : SetAfter(u, Hex1)
    \/ \E u \in Members, b \in SeqBases : RenameAfter(u, b)
    \/ \E u \in Members : MigrateAfter(u)
    \/ \E i \in 1..Len(calls) : CreateDone(i)
    \/ \E i \in 1..Len(calls) : EditDone(i)
    \/ \E i \in 1..Len(calls) : AttachDone(i)
    \/ \E i \in 1..Len(calls) : RemoteFail(i)

SpecSeq == InitSeq /\ [][NextSeq]_vars

\* POST /apply and /color_set over hex values that int() reads as a number
\* outside 24 bits
HexNeg == <<"-", "1">>
HexWide == <<"1", "0", "0", "0", "0", "0", "0">>
\* 1f after the separator U+001C, which str.strip() removes and int() does
\* not skip
HexSep == <<"", "1", "f">>
ColourHex == {Hex1, HexNeg, HexWide, HexSep}

InitColour == InitGuild({{}, {2}}, JoinTops)

NextColour ==
    \/ \E tok \in MemberTokens, hex \in ColourHex : ApplyBegin(tok, hex)
    \/ \E u \in Members, hex \in ColourHex : SetBegin(u, hex)
    \/ \E i \in 1..Len(calls) : CreateDone(i)
    \/ \E i \in 1..Len(calls) : EditDone(i)
    \/ \E i \in 1..Len(calls) : AttachDone(i)
    \/ \E i \in 1..Len(calls) : RemoteFail(i)

SpecColour == InitColour /\ [][NextColour]_vars

\* the four operations on a role below the bot's position and on a role at
\* it, while a guild admin changes the bot's top role
RankDirs == {{3}, {5}}

InitRank == InitGuild(RankDirs, BotTops)

NextRank ==
    \/ \E tok \in MemberTokens : ApplyBegin(tok, Hex1)
    \/ \E u \in Members : SetBegin(u, Hex1)
    \/ \E u \in Members : RenameBegin(u, Cool)
    \/ \E u \in Members : MigrateBegin(u)
    \/ \E i \in 1..Len(calls) : CreateDone(i)
    \/ \E i \in 1..Len(calls) : EditDone(i)
    \/ \E i \in 1..Len(calls) : AttachDone(i)
    \/ \E i \in 1..Len(calls) : RemoteFail(i)
    \/ \E t \in BotTops : EnvMoveBot(t)

SpecRank == InitRank /\ [][NextRank]_vars

(***************************************************************************)
(* Vocabulary of the properties                                            *)
(***************************************************************************)
Idx == 1..Len(calls)
Done(i) == calls[i].pc = "done"
AllDone == \A i \in Idx : Done(i)

\* the positions in c.issued of the requests of the given kinds
Reqs(c, kinds) == {k \in 1..Len(c.issued) : c.issued[k].kind \in kinds}
EditKinds == {"edit_colour", "edit_name"}

\* the exceptions that are the PermissionDenied outcome
Denied == {"NoManageRoles", "Hierarchy", "Protected"}

\* call i overlaps no other call
Solo(i) == \A k \in Idx \ {i} : k \in calls[i].prior \/ i \in calls[k].prior

\* the POST /apply calls made for user u
AppliesFor(u) == {i \in Idx : calls[i].op = "apply" /\ calls[i].uid = u}

\* a token sign produces under the current secret
ProducedBySign(tok) ==
    \E g \in {GUILD, OTHER_GUILD}, u \in {U42, ULong, U7} :
        tok = Sign([g |-> g, u |-> u], WEB_SECRET)

\* after an optional leading "#", exactly 6 characters of [0-9a-fA-F]
SixHex(raw) ==
    LET h == IF raw # <<>> /\ Head(raw) = "#" THEN Tail(raw) ELSE raw
    IN  Len(h) = 6 /\ AllIn(h, HexChars)

\* s ends with "-" followed by exactly n characters of cs
EndsDashRun(s, n, cs) ==
    /\ Len(s) >= n + 1
    /\ s[Len(s) - n] = "-"
    /\ \A k \in (Len(s) - n + 1)..Len(s) : s[k] \in cs

(***************************************************************************)
(* C1                                                                      *)
(***************************************************************************)
\* C1: when two or more POST /apply calls for one user were started while
\* the guild held no role of that user, then once every call has completed
\* the guild holds at most one role whose name matches that user.
C1_AtMostOneRoleAfterConcurrentApplies ==
    \A u \in Members :
        \A i, j \in AppliesFor(u) :
            (i # j /\ ~calls[i].present /\ ~calls[j].present /\ AllDone)
                => Cardinality(MatchingRoles(u)) <= 1

(***************************************************************************)
(* C2                                                                      *)
(***************************************************************************)
\* the POST /apply calls for u ran one after another
AppliesInSequence(u) == \A k \in AppliesFor(u) : Solo(k)

\* C2: when POST /apply is made twice in sequence for one user with the
\* same colour, the first call creating the role and completing, the second
\* call (unless the guard denies it) sends no create and sends an edit of
\* the colour of the role the first call created, and the guild then holds
\* exactly one role matching the user.
C2_SecondApplyEdits ==
    \A u \in Members :
        \A i, j \in AppliesFor(u) :
            ( /\ AppliesInSequence(u)
              /\ i \in calls[j].prior
              /\ calls[i].arg = calls[j].arg
              /\ calls[i].ok
              /\ Reqs(calls[i], {"create"}) = {1}
              /\ calls[j].err \notin Denied )
            => /\ Reqs(calls[j], {"create"}) = {}
               /\ Len(calls[j].issued) >= 1
               /\ calls[j].issued[1] = EditColourReq(calls[i].role, 1715004)
               /\ Cardinality(MatchingRoles(u)) = 1

C2_Witness ==
    \E u \in Members :
        \E i, j \in AppliesFor(u) :
            /\ AppliesInSequence(u)
            /\ i \in calls[j].prior
            /\ calls[i].arg = calls[j].arg
            /\ calls[i].ok
            /\ Reqs(calls[i], {"create"}) = {1}
            /\ calls[j].ok
            /\ Reqs(calls[j], EditKinds) = {1}

(***************************************************************************)
(* C3                                                                      *)
(***************************************************************************)
\* the call is a POST /apply with a token signed for member u of the guild
\* and a 6 digit hex value
ValidApply(c, u) ==
    /\ c.op = "apply"
    /\ c.tok = Sign([g |-> GUILD, u |-> u], WEB_SECRET)
    /\ SixHex(c.arg)

\* C3: a POST /apply with a valid token and the hex value 1a2b3c, begun
\* while the guild holds no role of the user (the bot holding Manage Roles
\* and Discord failing no request), sends exactly one create, for the name
\* "NameColor-" + uid_hash6(user) with colour 0x1A2B3C, no permissions, not
\* hoisted, not mentionable, then attaches the created role to the user and
\* answers ok = true with status 200.
C3_ApplyCreates ==
    \A i \in Idx : \A u \in Members :
        LET c == calls[i] IN
        ( /\ ValidApply(c, u)
          /\ ~c.present
          /\ manageRoles
          /\ c.err # "RemoteFailure" )
        => /\ Len(c.issued) >= 1
           /\ c.issued[1] =
                [kind |-> "create", role |-> 0,
                 name |-> NameColor \o <<"-">> \o uid_hash6(u),
                 colour |-> 1715004, perms |-> {}, hoist |-> FALSE,
                 mentionable |-> FALSE]
           /\ Reqs(c, {"create"}) = {1}
           /\ Reqs(c, EditKinds) = {}
           /\ Done(i) =>
                /\ c.ok /\ c.status = 200
                /\ c.role >= FirstNewId
                /\ c.issued = <<c.issued[1], AttachReq(c.role)>>
                /\ c.role \in memberRoles[u]
                /\ roles[c.role].perms = {}
                /\ ~roles[c.role].hoist
                /\ ~roles[c.role].mentionable

C3_Witness ==
    \E i \in Idx :
        /\ ValidApply(calls[i], U42)
        /\ ~calls[i].present
        /\ Done(i)
        /\ calls[i].ok
        /\ calls[i].role \in memberRoles[U42]

(***************************************************************************)
(* C4                                                                      *)
(***************************************************************************)
\* C4: a POST /apply with a valid token whose hex value is not, after an
\* optional leading "#", exactly 6 characters of [0-9a-fA-F] sends no
\* request to Discord and answers ok = false, "invalid hex" (stated for a
\* bot that holds Manage Roles).
C4_OnlySixHexDigitsAccepted ==
    \A i \in Idx : \A u \in Members :
        LET c == calls[i] IN
        ( /\ c.op = "apply"
          /\ c.tok = Sign([g |-> GUILD, u |-> u], WEB_SECRET)
          /\ manageRoles
          /\ ~SixHex(c.arg) )
        => /\ c.issued = <<>>
           /\ Done(i)
           /\ ~c.ok
           /\ c.msg = "invalid hex"

(***************************************************************************)
(* C5                                                                      *)
(***************************************************************************)
\* C5: a POST /apply whose token sign did not produce under the current
\* secret sends no request to Discord and answers ok = false, "invalid
\* token", status 400, whatever the hex value.
C5_BadTokenRejected ==
    \A i \in Idx :
        LET c == calls[i] IN
        (c.op = "apply" /\ ~ProducedBySign(c.tok))
        => /\ c.issued = <<>>
           /\ Done(i)
           /\ ~c.ok
           /\ c.msg = "invalid token"
           /\ c.status = 400

C5_Witness ==
    \E i, j \in Idx :
        /\ calls[i].op = "apply" /\ calls[j].op = "apply"
        /\ calls[i].tok = Sign([g |-> GUILD, u |-> U42], "guessed")
        /\ calls[i].arg = Hex1
        /\ calls[i].msg = "invalid token"
        /\ calls[j].tok = Garbage
        /\ calls[j].msg = "invalid token"

(***************************************************************************)
(* C6                                                                      *)
(***************************************************************************)
\* the role the call found was, as the call read it, below the bot's top
\* role in the order of the guild's roles: at a lower position, or at the
\* same position and made after it
BelowTop(c) ==
    \/ c.guardPos < c.guardTop
    \/ c.guardPos = c.guardTop /\ c.found > c.guardTopId

\* C6 as claimed: a call that found a role and ran the guard while the
\* role's position was greater than or equal to the bot's top position ends
\* with PermissionDenied and sends no request, whatever its colour or name
\* argument; every edit a call sends was sent with the role's position
\* below the bot's top position as read by that call.
C6_RankGuard ==
    \A i \in Idx :
        LET c == calls[i] IN
        /\ (c.guard # "none" /\ c.guardPos >= c.guardTop)
            => /\ Done(i)
               /\ c.err \in Denied
               /\ c.issued = <<>>
        /\ Reqs(c, EditKinds) # {}
            => c.guard = "ok" /\ c.guardPos < c.guardTop

\* C6 amended: a call that found a role and ran the guard while the role
\* was not below the bot's top role in the order of the guild's roles (its
\* position greater, or equal with the role being the top role itself or
\* made before it) ends with PermissionDenied and sends no request,
\* whatever its colour or name argument; every edit a call sends was sent
\* with the role below the bot's top role as read by that call; a role at
\* the position of the bot's top role and made after it passes the rank
\* test (the call is then denied only for the bot lacking Manage Roles or
\* for the role being protected).
C6_OrderGuard ==
    \A i \in Idx :
        LET c == calls[i] IN
        /\ (c.guard # "none" /\ ~BelowTop(c))
            => /\ Done(i)
               /\ c.err \in Denied
               /\ c.issued = <<>>
        /\ Reqs(c, EditKinds) # {}
            => c.guard = "ok" /\ BelowTop(c)
        /\ (c.guard # "none" /\ BelowTop(c))
            => c.guard \in {"ok", "NoManageRoles", "Protected"}

\* one role, two calls in sequence, the bot's top role changed between
\* them to a later made role at the same position: the first call passes
\* the guard at the position of the bot's top role and edits, the second
\* is denied at that same position
C6_Witness ==
    \E i, j \in Idx :
        /\ i \in calls[j].prior
        /\ calls[i].found # 0
        /\ calls[i].found = calls[j].found
        /\ calls[i].guard = "ok"
        /\ calls[i].guardPos = calls[i].guardTop
        /\ Reqs(calls[i], EditKinds) # {}
        /\ calls[j].err = "Hierarchy"
        /\ calls[j].guardPos = calls[j].guardTop
        /\ calls[j].guardTopId # calls[i].guardTopId
        /\ calls[j].issued = <<>>

\* one role, two calls in sequence, the bot's top position changed between
\* them: the first call passes the guard and edits, the second is denied
C6_WitnessMoved ==
    \E i, j \in Idx :
        /\ i \in calls[j].prior
        /\ calls[i].found # 0
        /\ calls[i].found = calls[j].found
        /\ calls[i].guard = "ok"
        /\ Reqs(calls[i], EditKinds) # {}
        /\ calls[j].err = "Hierarchy"
        /\ calls[j].guardPos > calls[j].guardTop
        /\ calls[j].guardTop # calls[i].guardTop
        /\ calls[j].issued = <<>>

(***************************************************************************)
(* C7                                                                      *)
(***************************************************************************)
\* lower case of one character (the letters the names of the model use)
LowerChar(c) ==
    CASE c = "A" -> "a" [] c = "B" -> "b" [] c = "C" -> "c" [] c = "D" -> "d"
      [] c = "E" -> "e" [] c = "F" -> "f" [] c = "M" -> "m" [] c = "N" -> "n"
      [] c = "O" -> "o" [] c = "S" -> "s" [] c = "V" -> "v" [] c = "I" -> "i"
      [] c = "P" -> "p"
      [] OTHER -> c

Lower(s) == [i \in 1..Len(s) |-> LowerChar(s[i])]

\* the role id, or the name under case-insensitive comparison, is in the
\* protection set
ProtectedAnyCase(r, name) ==
    \/ r \in PROTECTED_ROLE_IDS
    \/ \E n \in PROTECTED_ROLE_NAMES : Lower(n) = Lower(name)

\* C7: no call sends an edit of a role whose id is in the protection set or
\* whose name equals a protected name under case-insensitive comparison.
C7_ProtectedNeverEdited ==
    \A i \in Idx :
        LET c == calls[i] IN
        Reqs(c, EditKinds) # {} => ~ProtectedAnyCase(c.found, c.guardName)

(***************************************************************************)
(* C8                                                                      *)
(***************************************************************************)
\* the conditions of the guard held of the role the call found, as the call
\* read them
GuardHeld(c) ==
    /\ manageRoles
    /\ BelowTop(c)
    /\ c.found \notin PROTECTED_ROLE_IDS
    /\ c.guardName \notin PROTECTED_ROLE_NAMES

\* C8: a call that sends an edit or an attach for a role that existed when
\* it looked for one sends it only after the guard has passed on that role
\* in the same call; a call sends a request for no other role than the one
\* it found or the one it created; a call in which the guard or the
\* resolution of the identity fails sends no request at all.
C8_GuardBeforeMutation ==
    \A i \in Idx :
        LET c == calls[i] IN
        /\ c.err \in Denied \cup {"BadSignature", "GuildNotFound", "MemberNotFound"}
            => c.issued = <<>>
        /\ (c.issued # <<>> /\ c.issued[1].kind # "create")
            => /\ c.found # 0
               /\ c.guard = "ok"
               /\ GuardHeld(c)
               /\ \A k \in 1..Len(c.issued) : c.issued[k].role = c.found
        /\ (c.issued # <<>> /\ c.issued[1].kind = "create")
            => /\ c.found = 0
               /\ \A k \in 2..Len(c.issued) :
                    c.issued[k].kind = "attach" /\ c.issued[k].role >= FirstNewId

\* an apply that edited and attached a role it found unattached, and a call
\* the guard denied
C8_Witness ==
    \E i, j \in Idx :
        /\ calls[i].found # 0
        /\ Reqs(calls[i], EditKinds) = {1}
        /\ Reqs(calls[i], {"attach"}) = {2}
        /\ Done(i)
        /\ calls[j].err = "Protected"
        /\ calls[j].issued = <<>>

(***************************************************************************)
(* C9                                                                      *)
(***************************************************************************)
\* name ends with "-" and 6 hex characters, or with "-" and a decimal
\* identifier of any length
SuffixShapeAnyId(name) ==
    \/ EndsDashRun(name, 6, HexChars)
    \/ \E n \in 1..Len(name) : EndsDashRun(name, n, DecChars)

\* name ends with "-" and 6 hex characters, or with "-" and 15 to 25
\* decimal digits
SuffixShape(name) ==
    \/ EndsDashRun(name, 6, HexChars)
    \/ \E n \in 15..25 : EndsDashRun(name, n, DecChars)

\* C9 as claimed: /color_rename with a name that ends in "-" and 6 hex
\* characters or in "-" and a decimal identifier fails with the format
\* error and sends no request.
C9_AnyIdSuffixRejected ==
    \A i \in Idx :
        LET c == calls[i] IN
        (c.op = "rename" /\ SuffixShapeAnyId(c.arg))
        => Done(i) /\ c.err = "Format" /\ c.issued = <<>>

\* the same, a line feed that ends the name left aside
SuffixShapeLF(name) ==
    \/ SuffixShape(name)
    \/ /\ name # <<>>
       /\ name[Len(name)] = "\n"
       /\ SuffixShape(SubSeq(name, 1, Len(name) - 1))

\* C9 amended: /color_rename with a name that ends in "-" and 6 hex
\* characters or in "-" and 15 to 25 decimal digits fails with the format
\* error and sends no request, whether or not the user has a role; a name
\* with no such ending, a final line feed left aside, passes the format
\* check.
C9_SuffixShapeRejected ==
    \A i \in Idx :
        LET c == calls[i] IN
        c.op = "rename"
        => /\ SuffixShape(c.arg)
                => Done(i) /\ c.err = "Format" /\ c.issued = <<>> /\ ~c.ok
           /\ ~SuffixShapeLF(c.arg) => c.err # "Format"

\* the name of the spec's example is refused both for a user without a role
\* and for a user with one
C9_Witness ==
    \E i, j \in Idx :
        /\ calls[i].op = "rename" /\ calls[j].op = "rename"
        /\ calls[i].arg = Cool \o <<"-", "a", "1", "b", "2", "c", "3">>
        /\ calls[i].err = "Format"
        /\ calls[i].present
        /\ calls[j].arg = Cool \o <<"-">> \o Str(ULong)
        /\ calls[j].err = "Format"
        /\ ~calls[j].present

(***************************************************************************)
(* C10                                                                     *)
(***************************************************************************)
\* C10: /color_set (with a hex value), /color_rename (with a name that
\* passes the format check) and /color_fixname, begun while the guild holds
\* no role of the user, send no request: the first two fail with the
\* not-found error and the third returns None.  Every role the bot has
\* created was created by a POST /apply call.
C10_OnlyApplyCreates ==
    /\ \A i \in Idx :
        LET c == calls[i] IN
        (c.op \in {"set", "rename", "migrate"} /\ ~c.present)
        => /\ c.issued = <<>>
           /\ Done(i)
           /\ c.ret = 0
           /\ (c.op = "set" /\ SixHex(c.arg)) => c.err = "RoleNotFound"
           /\ (c.op = "rename" /\ ~SuffixShape(c.arg)) => c.err = "RoleNotFound"
           /\ c.op = "migrate" => c.err = "" /\ c.msg = "no role"
    /\ \A r \in DOMAIN roles :
        r >= FirstNewId => \E i \in Idx : calls[i].op = "apply" /\ calls[i].role = r

\* the three commands each met a user without a role
C10_Witness ==
    \E i, j \in Idx :
        /\ calls[i].op = "set" /\ ~calls[i].present /\ calls[i].err = "RoleNotFound"
        /\ calls[j].op = "migrate" /\ ~calls[j].present /\ calls[j].msg = "no role"
        /\ MatchingRoles(calls[i].uid) = {}
        /\ MatchingRoles(calls[j].uid) = {}

(***************************************************************************)
(* C12                                                                     *)
(***************************************************************************)
\* name ends with "-" and the decimal user id, or with "-" and the user's
\* current suffix
LinkedName(name, u) ==
    \/ EndsWith(name, <<"-">> \o Str(u))
    \/ EndsWith(name, <<"-">> \o uid_hash6(u))

\* C12: find returns a role of the guild whose name ends with "-" and the
\* decimal user id or with "-" and the user's current suffix whenever the
\* guild holds such a role, attached to the user or not, and returns None
\* only when neither the user's roles nor the guild's hold one; a command
\* begun while the guild holds such a role finds one, and finds none
\* otherwise.
C12_FindLocatesAnyMatch ==
    /\ \A u \in Members :
        LET f == find_personal_role(u) IN
        /\ (\E r \in DOMAIN roles : LinkedName(roles[r].name, u))
            => f \in DOMAIN roles /\ LinkedName(roles[f].name, u)
        /\ f = 0 =>
            \A r \in memberRoles[u] \cup DOMAIN roles : ~LinkedName(roles[r].name, u)
    /\ \A i \in Idx :
        LET c == calls[i] IN
        (c.op \in {"set", "migrate"} /\ c.err # "ValueError")
        => /\ c.present => c.found \in DOMAIN roles
           /\ ~c.present => c.found = 0 /\ c.issued = <<>>

\* the legacy role of user 123456789012345, not attached to the user, is
\* found by /color_set
C12_Witness ==
    \E i \in Idx :
        /\ calls[i].op = "set"
        /\ calls[i].uid = ULong
        /\ calls[i].found = 2
        /\ roles[2].name = <<"O", "l", "d", "-">> \o Str(ULong)
        /\ 2 \notin memberRoles[ULong]
        /\ find_personal_role(ULong) = 2

(***************************************************************************)
(* C13                                                                     *)
(***************************************************************************)
\* C13 as claimed: a finished POST /apply answers 400 for an invalid token
\* or an invalid hex value, 404 when the guild or the member cannot be
\* resolved and 200 otherwise, a call that failed with PermissionDenied or
\* a remote failure answering 200 with ok = false.
C13_ErrorsAnswer200 ==
    \A i \in Idx :
        LET c == calls[i] IN
        (c.op = "apply" /\ Done(i))
        => /\ c.status =
                CASE c.err \in {"BadSignature", "ValueError"} -> 400
                  [] c.err \in {"GuildNotFound", "MemberNotFound"} -> 404
                  [] OTHER -> 200
           /\ c.err \in Denied \cup {"RemoteFailure"} => ~c.ok

\* C13 amended: a finished POST /apply answers 400 for an invalid token or
\* a hex value rejected as invalid, 404 when the guild cannot be resolved,
\* 500 with ok = false when the member cannot be resolved or the apply
\* fails with PermissionDenied or a remote failure, and 200 with ok = true
\* otherwise; a call that has not finished has answered nothing.
C13_StatusByOutcome ==
    \A i \in Idx :
        LET c == calls[i] IN
        c.op = "apply"
        => /\ Done(i) =>
                /\ c.err \in {"BadSignature", "ValueError"}
                    => c.status = 400 /\ ~c.ok
                /\ c.err = "GuildNotFound" => c.status = 404 /\ ~c.ok
                /\ c.err \in {"MemberNotFound", "RemoteFailure"} \cup Denied
                    => c.status = 500 /\ ~c.ok
                /\ c.err = "" => c.status = 200 /\ c.ok
                /\ c.err \in {"", "BadSignature", "ValueError", "GuildNotFound",
                              "MemberNotFound", "RemoteFailure"} \cup Denied
           /\ ~Done(i) => c.status = 0 /\ c.err = ""

\* an apply the guard denied and an apply for an unknown guild
C13_Witness ==
    \E i, j \in Idx :
        /\ calls[i].op = "apply" /\ calls[j].op = "apply"
        /\ calls[i].err \in Denied
        /\ calls[i].found # 0
        /\ calls[i].status = 500
        /\ calls[j].err = "GuildNotFound"
        /\ calls[j].status = 404

(***************************************************************************)
(* C14                                                                     *)
(***************************************************************************)
\* C14: a call that looked for the user's role in the guild's list (the
\* user holding no role) while the list held a role with the user's
\* current suffix found a role with the current suffix, not one with the
\* legacy suffix.
C14_FindPrefersCurrent ==
    \A i \in Idx :
        LET c == calls[i] IN
        ( /\ c.guard # "none"
          /\ memberRoles[c.uid] = {}
          /\ \E r \in DOMAIN roles :
                /\ r < FirstNewId
                /\ EndsWith(PresetRole(r).name, <<"-">> \o uid_hash6(c.uid)) )
        => EndsWith(c.guardName, <<"-">> \o uid_hash6(c.uid))

(***************************************************************************)
(* C15                                                                     *)
(***************************************************************************)
\* what /color_fixname does around the name it writes: a call the guard let
\* pass (the role it found bears the legacy suffix) sends one edit of the
\* name of that role, to the name given, and returns that role; a call that
\* found a role without the legacy suffix sends nothing and returns it; a
\* second call after a successful one sends nothing and returns the same
\* role
MigrateWrites(NewName(_, _)) ==
    /\ \A i \in Idx :
        LET c == calls[i] IN
        c.op = "migrate"
        => /\ c.guard = "ok"
                => /\ EndsWith(c.guardName, <<"-">> \o Str(c.uid))
                   /\ c.issued = <<EditNameReq(c.found, NewName(c.guardName, c.uid))>>
                   /\ (Done(i) /\ c.ok) => c.ret = c.found
           /\ (c.found # 0 /\ c.guard = "none")
                => /\ c.issued = <<>>
                   /\ Done(i) /\ c.ok
                   /\ c.ret = c.found
    /\ \A i, j \in Idx :
        ( /\ calls[i].op = "migrate" /\ calls[j].op = "migrate"
          /\ calls[i].uid = calls[j].uid
          /\ i \in calls[j].prior
          /\ calls[i].ok
          /\ calls[i].issued # <<>> )
        => /\ calls[j].issued = <<>>
           /\ calls[j].ok
           /\ calls[j].ret = calls[i].ret

\* visibleBase + "-" + currentSuffix(userId)
VisibleBaseName(name, u) == pretty_role_name(name) \o <<"-">> \o uid_hash6(u)

\* the same with "NameColor" for an empty visible base, the base stripped
\* of surrounding blanks and cut to the 93 characters the suffix leaves
ComposedName(name, u) ==
    LET vis == pretty_role_name(name)
        base == IF vis = <<>> THEN NameColor ELSE Strip(vis)
    IN  Take(base, 93) \o <<"-">> \o uid_hash6(u)

\* C15 as claimed: /color_fixname on a role with the legacy suffix, the
\* guard passing, rewrites its name to the visible base + "-" + the current
\* suffix and keeps the role; on a role with the current suffix it sends
\* nothing and returns the role; a second /color_fixname after a successful
\* one is a no-op.
C15_MigrateToVisibleBase == MigrateWrites(VisibleBaseName)

\* C15 amended: the same, the new name being composed from the visible
\* base stripped of surrounding blanks, or from "NameColor" when the
\* visible base is empty.
C15_MigrateComposes == MigrateWrites(ComposedName)

\* two /color_fixname in sequence on the legacy role Old-123456789012345
C15_Witness ==
    \E i, j \in Idx :
        /\ calls[i].op = "migrate" /\ calls[j].op = "migrate"
        /\ i \in calls[j].prior
        /\ calls[i].ok
        /\ calls[i].issued =
                <<EditNameReq(2, <<"O", "l", "d", "-">> \o uid_hash6(ULong))>>
        /\ calls[j].ok
        /\ calls[j].issued = <<>>
        /\ calls[j].ret = 2
        /\ roles[2].name = <<"O", "l", "d", "-", "3", "b", "5", "4", "0", "9">>

(***************************************************************************)
(* C16                                                                     *)
(***************************************************************************)
\* the finished calls made for u that succeeded on a role
Successes(u) ==
    {i \in Idx : calls[i].uid = u /\ Done(i) /\ calls[i].ok /\ calls[i].ret # 0}

\* C16: when the calls are made one after another, all the successful
\* POST /apply, /color_set, /color_rename and /color_fixname calls of one
\* user returned the same role, the one the first of them created or
\* found; once a call has succeeded and none is running, find returns that
\* role and the guild holds exactly one role matching the user.
C16_LinkageStable ==
    \A u \in Members :
        /\ \A i, j \in Successes(u) : calls[i].ret = calls[j].ret
        /\ \A i \in Successes(u) :
            /\ calls[i].ret \in DOMAIN roles
            /\ AllDone =>
                /\ find_personal_role(u) = calls[i].ret
                /\ MatchingRoles(u) = {calls[i].ret}

\* user 42 creates the role, renames it and recolours it
C16_Witness ==
    /\ Len(calls) = 3
    /\ AllDone
    /\ \A i \in Idx : calls[i].uid = U42 /\ calls[i].ok
    /\ calls[1].op = "apply" /\ calls[1].issued[1].kind = "create"
    /\ calls[2].op = "rename" /\ calls[2].arg = Cool
    /\ calls[3].op = "set"
    /\ find_personal_role(U42) = calls[1].role
    /\ roles[calls[1].role].name = Cool \o <<"-">> \o uid_hash6(U42)

(***************************************************************************)
(* C17                                                                     *)
(***************************************************************************)
\* C17: every name a call sends in a create or in an edit of the name ends
\* with "-" and the current suffix of the call's user, has at most 100
\* characters and matches the user; so does the name of every role the bot
\* has created.
C17_ComposedNameFits ==
    /\ \A i \in Idx :
        LET c == calls[i] IN
        \A k \in Reqs(c, {"create", "edit_name"}) :
            /\ Len(c.issued[k].name) <= 100
            /\ EndsWith(c.issued[k].name, <<"-">> \o uid_hash6(c.uid))
            /\ NameMatches(c.issued[k].name, c.uid)
    /\ \A r \in DOMAIN roles :
        r >= FirstNewId => Len(roles[r].name) <= 100

\* a rename with a base of 101 characters has been carried out: the name
\* holds 100
C17_Witness ==
    \E i \in Idx :
        /\ calls[i].op = "rename"
        /\ calls[i].arg = LongBase
        /\ Len(calls[i].arg) = 101
        /\ calls[i].ok
        /\ Len(roles[calls[i].ret].name) = 100
        /\ EndsWith(roles[calls[i].ret].name, <<"-">> \o uid_hash6(calls[i].uid))

(***************************************************************************)
(* C18                                                                     *)
(***************************************************************************)
\* C18: a POST /apply begun while the guild holds no role of the user that
\* ends in failure leaves no role it created in the guild.
C18_FailedApplyLeavesNothing ==
    \A i \in Idx :
        LET c == calls[i] IN
        (c.op = "apply" /\ ~c.present /\ Done(i) /\ c.err # "")
        => c.role \notin DOMAIN roles

(***************************************************************************)
(* C19                                                                     *)
(***************************************************************************)
\* the role was created by a call made for user u
CreatedFor(r, u) ==
    \E j \in Idx :
        /\ calls[j].uid = u
        /\ calls[j].role = r
        /\ calls[j].issued # <<>>
        /\ calls[j].issued[1].kind = "create"

\* the two endings that link a name to a member
LinkSuffixes ==
    [u \in Members |-> {<<"-">> \o Str(u), <<"-">> \o uid_hash6(u)}]

\* the roles of the guild whose name ends with one of the endings of u
Linked(u) ==
    {r \in DOMAIN roles : \E suf \in LinkSuffixes[u] : EndsWith(roles[r].name, suf)}

\* C19: for two members A and B, running any of the four operations in any
\* interleaving: no role bears an ending of both; A holds no role that
\* bears an ending of B; a call made for A finds no role that bears an
\* ending of B or that was created for B, and sends no edit and no attach
\* for such a role.
C19_IdentitiesIsolated ==
    LET linked == [u \in Members |-> Linked(u)]
    IN  \A a, b \in Members :
        a # b =>
        /\ linked[a] \cap linked[b] = {}
        /\ memberRoles[a] \cap linked[b] = {}
        /\ \A i \in Idx :
            LET c == calls[i] IN
            c.uid = a
            => /\ c.found # 0
                    => c.found \notin linked[b] /\ ~CreatedFor(c.found, b)
               /\ \A k \in 1..Len(c.issued) :
                    c.issued[k].role # 0
                    => /\ c.issued[k].role \notin linked[b]
                       /\ ~CreatedFor(c.issued[k].role, b)

\* both members have had a role created, and user 42 has found a role
\* while the other member's role was in the guild
C19_Witness ==
    \E i, j \in Idx :
        /\ calls[i].uid = U42 /\ calls[j].uid = ULong
        /\ calls[i].ok /\ calls[j].ok
        /\ find_personal_role(U42) = calls[i].role
        /\ find_personal_role(ULong) = calls[j].role
        /\ calls[i].role # calls[j].role
        /\ CreatedFor(calls[j].role, ULong)

(***************************************************************************)
(* C20                                                                     *)
(***************************************************************************)
\* C20: every colour a call sends in a create or in an edit of the colour
\* is an integer in 0..0xFFFFFF.
C20_ColourIn24Bits ==
    \A i \in Idx :
        LET c == calls[i] IN
        \A k \in Reqs(c, {"create", "edit_colour"}) :
            c.issued[k].colour \in 0..(2^24 - 1)

====
